---- MODULE Spec2Model ----
(***************************************************************************)
(* A model of frontend/src/pages/DyslexiaFont.js: the DyslexiaFont React   *)
(* component.  Three groups of state are modelled: the display settings    *)
(* and their copy in localStorage, the Text Buffer with the asynchronous   *)
(* file imports that write it, and the read-aloud controller with the      *)
(* browser's speech engine.                                                 *)
(*                                                                         *)
(* Units: fontSize is in px; lineHeight, letterSpacing and rate are in     *)
(* tenths (the range inputs step by 0.1), so 1.6 is 16 and 2.4 is 24.      *)
(***************************************************************************)
EXTENDS Integers, Sequences, FiniteSets, TLC

VARIABLES
  phase,        \* "running": the component is mounted; "closed": it is not
  settings,     \* the six useState display settings, a record of JS values
  rate,         \* useState rate (tenths)
  store,        \* localStorage's entry "dyslexia_ui_settings"
  mountedFrom,  \* history: the entry the current session found at mount,
                \* kept until the first control change of the session
  text,         \* useState text: the Text Buffer, a sequence of pieces
  uncaught,     \* names of the exceptions that escaped a handler or effect
  inputValue,   \* the file input's value: the selected file's name, or ""
  jobs,         \* the handleFileUpload invocations of the session, in the
                \* order they were started
  alerts,       \* the messages shown by alert()
  writeOrder,   \* history: the jobs that called setText, in the order they did
  textSource,   \* history: who wrote the Text Buffer last
  hasSpeech,    \* whether the host has window.speechSynthesis
  isReading,    \* useState isReading: the controller is speaking
  queue,        \* the speech engine's utterances, the first being spoken
  staleEnds,    \* end events in flight for utterances that were cancelled
  nextId,       \* the identity of the next utterance object
  lastCall      \* history: the controller's last call; "replay" is a play()
                \* that found an utterance in flight

sVars == <<phase, settings, store, mountedFrom>>
iVars == <<inputValue, jobs, writeOrder, textSource>>
tVars == <<hasSpeech, isReading, queue, staleEnds, nextId, lastCall>>
vars == <<phase, settings, rate, store, mountedFrom, text, uncaught,
          inputValue, jobs, alerts, writeOrder, textSource,
          hasSpeech, isReading, queue, staleEnds, nextId, lastCall>>

(***************************************************************************)
(* JavaScript values, as far as the settings need them.                    *)
(***************************************************************************)
Num(x) == [t |-> "num", n |-> x, s |-> ""]
Str(x) == [t |-> "str", n |-> 0, s |-> x]
Null == [t |-> "null", n |-> 0, s |-> ""]
Undefined == [t |-> "undef", n |-> 0, s |-> ""]

\* JavaScript's ToBoolean, as `if (s.font)` applies it.
Truthy(v) == \/ v.t = "num" /\ v.n # 0
             \/ v.t = "str" /\ v.s # ""

Fields == {"font", "fontSize", "lineHeight", "letterSpacing", "bgColor", "textColor"}
FieldOrder == <<"font", "fontSize", "lineHeight", "letterSpacing", "bgColor", "textColor">>

DefaultSettings ==
  [font |-> Str("normal"), fontSize |-> Num(20), lineHeight |-> Num(16),
   letterSpacing |-> Num(0), bgColor |-> Str("#fffef0"), textColor |-> Str("#222222")]

DefaultRate == 10
Placeholder == <<"Type or paste text here...">>

\* The bounds of the range inputs.
FontSizeMin == 14
FontSizeMax == 48
LineHeightMin == 10
LineHeightMax == 24
LetterSpacingMin == 0
LetterSpacingMax == 40
RateMin == 5
RateMax == 20


(***************************************************************************)
(* What the controls can produce.  A range input only yields values of its *)
(* [min, max]; the model draws the two ends and the default.               *)
(***************************************************************************)
FontChoices == {"normal", "opendys"}
FontSizeChoices == {FontSizeMin, 20, FontSizeMax}
LineHeightChoices == {LineHeightMin, 16, LineHeightMax}
LetterSpacingChoices == {LetterSpacingMin, 5, LetterSpacingMax}
BgColorChoices == {"#fffef0", "#f7fbff", "#f3fff4"}
TextColorChoices == {"#222", "#3b3b6b"}
RateChoices == {RateMin, DefaultRate, RateMax}

(***************************************************************************)
(* localStorage's entry is absent or a string.  A string is modelled by    *)
(* what JSON.parse makes of it: the empty string, a text that is not JSON, *)
(* the JSON texts null and 5, and a JSON object text, which is the         *)
(* sequence of its members as written.                                     *)
(***************************************************************************)
NoItem == [kind |-> "absent", members |-> <<>>]
EmptyText == [kind |-> "empty", members |-> <<>>]
GarbageText == [kind |-> "garbage", members |-> <<>>]
NullText == [kind |-> "null", members |-> <<>>]
ScalarText == [kind |-> "scalar", members |-> <<>>]
ObjectText(ms) == [kind |-> "object", members |-> ms]
\* mountedFrom once the session's controls have been used, or with no session.
Untracked == [kind |-> "untracked", members |-> <<>>]

Member(k, v) == [k |-> k, v |-> v]

\* JSON.stringify of an object literal: its members in order, those whose
\* value is undefined left out.
JSONstringify(ms) == ObjectText(SelectSeq(ms, LAMBDA m : m.v.t # "undef"))

\* JSON.parse: throws a SyntaxError on a text that is not JSON; of an object
\* text, the object whose keys are the members' keys, the last member of a
\* key giving its value.
JSONparse(txt) ==
  CASE txt.kind \in {"empty", "garbage"} -> [error |-> "SyntaxError", t |-> "undef", obj |-> <<>>]
    [] txt.kind = "null" -> [error |-> "none", t |-> "null", obj |-> <<>>]
    [] txt.kind = "scalar" -> [error |-> "none", t |-> "num", obj |-> <<>>]
    [] OTHER ->
         LET ms == txt.members
             keys == {ms[i].k : i \in 1..Len(ms)}
             last(k) == CHOOSE i \in 1..Len(ms) :
                          /\ ms[i].k = k
                          /\ \A j \in (i+1)..Len(ms) : ms[j].k # k
         IN [error |-> "none", t |-> "obj", obj |-> [k \in keys |-> ms[last(k)].v]]

\* s.key on a parsed value: undefined when the key is absent or the value is
\* no object.  (On null the access throws; TryLoad checks that before.)
Prop(p, k) == IF p.t = "obj" /\ k \in DOMAIN p.obj THEN p.obj[k] ELSE Undefined

\* The save effect: localStorage.setItem(key, JSON.stringify({font, ...})).
SaveEffect(s) ==
  JSONstringify([i \in 1..Len(FieldOrder) |-> Member(FieldOrder[i], s[FieldOrder[i]])])

\* The body of the load effect's try block, on entry `st` and state `cur`:
\* the state it leaves and the error it throws, if any.
TryLoad(st, cur) ==
  LET raw == IF st.kind \in {"absent", "empty"} THEN ObjectText(<<>>) ELSE st
      p == JSONparse(raw)
  IN IF p.error # "none" THEN [settings |-> cur, error |-> p.error]
     ELSE IF p.t = "null" THEN [settings |-> cur, error |-> "TypeError"]
     ELSE [settings |-> [f \in Fields |->
                           IF Truthy(Prop(p, f)) THEN Prop(p, f) ELSE cur[f]],
           error |-> "none"]

\* The load effect without its catch: whatever the try block throws escapes.
LoadEffectUncaught(st, cur) ==
  LET r == TryLoad(st, cur) IN [settings |-> r.settings, escaped |-> r.error]

\* The load effect: try { ... } catch {} swallows whatever is thrown.
LoadEffect(st, cur) ==
  LET r == TryLoad(st, cur) IN [settings |-> r.settings, escaped |-> "none"]

\* A commit in which the load effect runs before the save effect: the load
\* reads the entry as the session found it, the save effect writes the
\* defaults of the first render, and the re-render saves what was loaded.
MountCommitLoadFirst(st) ==
  LET r == LoadEffect(st, DefaultSettings)
  IN [settings |-> r.settings, store |-> SaveEffect(r.settings), escaped |-> r.escaped]

\* The commit of the first render.  The state is useState's defaults; the
\* effects run in the order they are declared: the save effect writes the
\* defaults, then the load effect reads the entry back.  A state change by
\* the load effect re-renders, and the save effect runs again.
MountCommit(st) ==
  LET s0 == DefaultSettings
      st1 == SaveEffect(s0)
      r == LoadEffect(st1, s0)
      st2 == IF r.settings # s0 THEN SaveEffect(r.settings) ELSE st1
  IN [settings |-> r.settings, store |-> st2, escaped |-> r.escaped]

Escaped(e) == IF e = "none" THEN uncaught ELSE uncaught \cup {e}

\* What other writers leave under the key while the page is closed: the
\* store cleared or corrupted, and entries written by hand.
ExternalStores ==
  { NoItem, EmptyText, GarbageText, NullText, ScalarText,
    ObjectText(<<Member("font", Str("opendys")), Member("fontSize", Num(99))>>),
    ObjectText(<<Member("lineHeight", Num(0)), Member("letterSpacing", Num(41))>>),
    ObjectText(<<Member("fontSize", Str("big")), Member("fontSize", Num(13))>>) }

(***************************************************************************)
(* Files and the Text Buffer.  A string is a sequence of pieces; a file    *)
(* is its name, a sequence of characters, and its pages, each a sequence   *)
(* of text fragments.                                                      *)
(***************************************************************************)
NoFile == <<>>

MaxImports == 2

LowerOf == [c \in {"A", "B", "D", "F", "P", "T", "X"} |->
              CASE c = "A" -> "a" [] c = "B" -> "b" [] c = "D" -> "d" [] c = "F" -> "f"
                [] c = "P" -> "p" [] c = "T" -> "t" [] c = "X" -> "x"]

\* String.prototype.toLowerCase
ToLowerCase(name) ==
  [i \in 1..Len(name) |-> IF name[i] \in DOMAIN LowerOf THEN LowerOf[name[i]] ELSE name[i]]

\* String.prototype.endsWith
EndsWith(str, suffix) ==
  /\ Len(suffix) <= Len(str)
  /\ SubSeq(str, Len(str) - Len(suffix) + 1, Len(str)) = suffix

DotTxt == <<".", "t", "x", "t">>
DotPdf == <<".", "p", "d", "f">>
DotDocx == <<".", "d", "o", "c", "x">>
ImageSuffixes == { <<".", "p", "n", "g">>, <<".", "j", "p", "g">>,
                   <<".", "j", "p", "e", "g">>, <<".", "b", "m", "p">> }

\* The branch handleFileUpload takes on a name, compared as written.
BranchOfExact(name) ==
  IF EndsWith(name, DotTxt) THEN "file.text"
  ELSE IF EndsWith(name, DotPdf) THEN "readPDF"
  ELSE IF EndsWith(name, DotDocx) THEN "readDOCX"
  ELSE IF \E x \in ImageSuffixes : EndsWith(name, x) THEN "readImage"
  ELSE "none"

\* The branch handleFileUpload takes: the if/else-if chain on the
\* lower-cased name.
BranchOf(name) ==
  LET ext == ToLowerCase(name)
  IN IF EndsWith(ext, DotTxt) THEN "file.text"
     ELSE IF EndsWith(ext, DotPdf) THEN "readPDF"
     ELSE IF EndsWith(ext, DotDocx) THEN "readDOCX"
     ELSE IF \E x \in ImageSuffixes : EndsWith(ext, x) THEN "readImage"
     ELSE "none"

TwoPages == << <<"Hello">>, <<"World">> >>
OnePage == << <<"Lorem", "ipsum">> >>

File(n, p) == [name |-> n, pages |-> p]

Files ==
  { File(<<"a", ".", "t", "x", "t">>, TwoPages),
    File(<<"B", ".", "T", "X", "T">>, OnePage),
    File(<<"a", ".", "p", "d", "f">>, TwoPages),
    File(<<"b", ".", "P", "d", "F">>, OnePage),
    File(<<"a", ".", "d", "o", "c", "x">>, OnePage),
    File(<<"a", ".", "p", "n", "g">>, TwoPages),
    File(<<"a", ".", "j", "p", "g">>, OnePage),
    File(<<"a", ".", "j", "p", "e", "g">>, OnePage),
    File(<<"a", ".", "b", "m", "p">>, OnePage),
    File(<<"a", ".", "d", "o", "c">>, OnePage),
    File(<<"a", ".", "t", "x", "t", ".", "g", "z">>, OnePage),
    File(<<"t", "x", "t">>, OnePage),
    File(<<"a", ".", "g", "i", "f">>, TwoPages) }

RECURSIVE Join(_, _)
\* Array.prototype.join
Join(items, sep) ==
  IF Len(items) = 0 THEN <<>>
  ELSE IF Len(items) = 1 THEN <<items[1]>>
  ELSE <<items[1], sep>> \o Join(Tail(items), sep)

RECURSIVE Flatten(_)
Flatten(pages) == IF pages = <<>> THEN <<>> ELSE Head(pages) \o Flatten(Tail(pages))

\* One round of readPDF's loop: content.items.map(...).join(" ") + "\n"
PageText(page) == Join(page, " ") \o <<"\n">>

\* What the readers resolve to: the file's text as it is (file.text()), and
\* the text the DOCX extractor and the OCR engine find in the file.
FileText(f) == Flatten(f.pages)
ExtractRawText(f) == Flatten(f.pages)
Recognize(f) == Flatten(f.pages)

TypedTexts == { <<"typed">>, Placeholder }

\* setText(result) at the end of an import: the result replaces the buffer,
\* whichever import it comes from.
TextAfterImportOfLatest(j, result) == IF j = Len(jobs) THEN result ELSE text

TextAfterImport(j, result) == result

NewJob(f, branch) ==
  [file |-> f, extractor |-> branch, pc |-> "done", page |-> 0, fullText |-> <<>>,
   result |-> <<>>, status |-> "running", handler |-> "returned", alerted |-> FALSE,
   wrote |-> FALSE]

\* handleFileUpload, up to its first await or to its end.  The change event
\* fires when the selection changes.
HandleFileUpload(f) ==
  /\ phase = "running"
  /\ Len(jobs) < MaxImports
  /\ f.name # inputValue
  /\ LET branch == BranchOf(f.name)
     IN CASE branch = "file.text" ->
               /\ jobs' = Append(jobs, [NewJob(f, branch) EXCEPT
                                          !.pc = "text", !.handler = "awaiting"])
               /\ inputValue' = f.name
               /\ UNCHANGED alerts
          [] branch = "readPDF" ->
               /\ jobs' = Append(jobs, [NewJob(f, branch) EXCEPT !.pc = "buffer"])
               /\ inputValue' = NoFile
               /\ UNCHANGED alerts
          [] branch = "readDOCX" ->
               /\ jobs' = Append(jobs, [NewJob(f, branch) EXCEPT !.pc = "buffer"])
               /\ inputValue' = NoFile
               /\ UNCHANGED alerts
          [] branch = "readImage" ->
               /\ jobs' = Append(jobs, [NewJob(f, branch) EXCEPT !.pc = "recognize"])
               /\ inputValue' = NoFile
               /\ UNCHANGED alerts
          [] OTHER ->
               /\ jobs' = Append(jobs, [NewJob(f, branch) EXCEPT
                                          !.status = "unsupported", !.alerted = TRUE])
               /\ inputValue' = NoFile
               /\ alerts' = alerts \cup {"Unsupported file type"}
  /\ UNCHANGED <<sVars, tVars, rate, text, uncaught, writeOrder, textSource>>

Upload == \E f \in Files : HandleFileUpload(f)

\* The change event of an emptied selection: `if (!file) return`.
ClearSelection ==
  /\ phase = "running"
  /\ inputValue # NoFile
  /\ inputValue' = NoFile
  /\ UNCHANGED <<sVars, tVars, rate, text, uncaught, jobs, alerts, writeOrder, textSource>>

\* An import's last step: setText(result).
Finish(j, result) ==
  /\ text' = TextAfterImport(j, result)
  /\ jobs' = [jobs EXCEPT ![j].pc = "done", ![j].status = "ok", ![j].result = result,
                          ![j].wrote = TRUE, ![j].handler = "returned"]
  /\ writeOrder' = Append(writeOrder, j)
  /\ textSource' = "import"

Advance(j, pc, page, full) ==
  /\ jobs' = [jobs EXCEPT ![j].pc = pc, ![j].page = page, ![j].fullText = full]
  /\ UNCHANGED <<text, writeOrder, textSource>>

\* `await file.text()` resolves: setText(txt), then e.target.value = "".
TextResolve(j) ==
  /\ jobs[j].pc = "text"
  /\ Finish(j, FileText(jobs[j].file))
  /\ inputValue' = NoFile
  /\ UNCHANGED <<sVars, tVars, rate, uncaught, alerts>>

\* readPDF, from one await to the next.
PdfResolve(j) ==
  /\ jobs[j].extractor = "readPDF"
  /\ LET job == jobs[j]
         numPages == Len(job.file.pages)
     IN CASE job.pc = "buffer" -> Advance(j, "document", 0, <<>>)
          [] job.pc = "document" ->
               IF 1 <= numPages THEN Advance(j, "page", 1, <<>>) ELSE Finish(j, <<>>)
          [] job.pc = "page" -> Advance(j, "content", job.page, job.fullText)
          [] job.pc = "content" ->
               LET full == job.fullText \o PageText(job.file.pages[job.page])
               IN IF job.page + 1 <= numPages
                  THEN Advance(j, "page", job.page + 1, full)
                  ELSE Finish(j, full)
          [] OTHER -> FALSE
  /\ UNCHANGED <<sVars, tVars, rate, uncaught, alerts, inputValue>>

\* readDOCX, from one await to the next.
DocxResolve(j) ==
  /\ jobs[j].extractor = "readDOCX"
  /\ CASE jobs[j].pc = "buffer" -> Advance(j, "extract", 0, <<>>)
       [] jobs[j].pc = "extract" -> Finish(j, ExtractRawText(jobs[j].file))
       [] OTHER -> FALSE
  /\ UNCHANGED <<sVars, tVars, rate, uncaught, alerts, inputValue>>

\* readImage: `await Tesseract.recognize(file, "eng")` resolves.
ImageResolve(j) ==
  /\ jobs[j].pc = "recognize"
  /\ Finish(j, Recognize(jobs[j].file))
  /\ UNCHANGED <<sVars, tVars, rate, uncaught, alerts, inputValue>>

\* The awaited promise rejects: the async function's promise rejects and
\* nobody handles it.  In handleFileUpload the rest of the body is skipped.
Reject(j) ==
  /\ jobs[j].status = "running"
  /\ jobs' = [jobs EXCEPT ![j].pc = "done", ![j].status = "failed",
                          ![j].handler = IF jobs[j].pc = "text" THEN "threw" ELSE @]
  /\ uncaught' = uncaught \cup {"UnhandledRejection"}
  /\ UNCHANGED <<sVars, tVars, rate, text, alerts, inputValue, writeOrder, textSource>>

Resolve == \E j \in 1..Len(jobs) :
             TextResolve(j) \/ PdfResolve(j) \/ DocxResolve(j) \/ ImageResolve(j)

Fail == \E j \in 1..Len(jobs) : Reject(j)

\* The textarea's onChange, and the Clear button.
EditText ==
  /\ phase = "running"
  /\ \E t \in TypedTexts : text' = t
  /\ textSource' = "user"
  /\ UNCHANGED <<sVars, tVars, rate, uncaught, inputValue, jobs, alerts, writeOrder>>

ClearText ==
  /\ phase = "running"
  /\ text' = <<>>
  /\ textSource' = "user"
  /\ UNCHANGED <<sVars, tVars, rate, uncaught, inputValue, jobs, alerts, writeOrder>>

ImportNext ==
  \/ Upload
  \/ ClearSelection
  \/ Resolve
  \/ Fail
  \/ EditText
  \/ ClearText

(***************************************************************************)
(* Read aloud.  window.speechSynthesis keeps a queue of utterances and     *)
(* speaks its first; cancel() empties the queue.  Whether the engine still *)
(* delivers an end event to an utterance that cancel() removed depends on  *)
(* the host (it may deliver none, or an error event), so the model lets    *)
(* either happen.                                                          *)
(***************************************************************************)
MaxPlays == 3
MaxStaleEnds == 2

\* new SpeechSynthesisUtterance(text) with utter.rate = rate
Utterance(id, t, r) == [id |-> id, text |-> t, rate |-> r]

\* The engine's queue after speak(utter) with no cancel() before it.
QueueAfterSpeakOnly(q, u) == Append(q, u)

\* speechSynthesis.cancel(): every utterance leaves the queue.
Cancelled(q) == SubSeq(q, 1, 0)

\* The engine's queue after playTTS: cancel(), then speak(utter).
QueueAfterPlay(q, u) == Append(Cancelled(q), u)

\* The end events in flight after cancel() on queue q.
StaleAfterCancel(q) ==
  {staleEnds} \cup (IF q # <<>> /\ staleEnds < MaxStaleEnds THEN {staleEnds + 1} ELSE {})

PlayTTS ==
  /\ phase = "running"
  /\ IF ~hasSpeech
     THEN /\ alerts' = alerts \cup {"Browser does not support TTS"}
          /\ UNCHANGED <<isReading, queue, staleEnds, nextId, lastCall>>
     ELSE /\ nextId <= MaxPlays
          /\ \E k \in StaleAfterCancel(queue) : staleEnds' = k
          /\ queue' = QueueAfterPlay(queue, Utterance(nextId, text, rate))
          /\ nextId' = nextId + 1
          /\ isReading' = TRUE
          /\ lastCall' = IF queue # <<>> THEN "replay" ELSE "play"
          /\ UNCHANGED alerts
  /\ UNCHANGED <<sVars, iVars, rate, text, uncaught, hasSpeech>>

\* stopTTS reads window.speechSynthesis without a check: in a host that has
\* none, `.cancel` of undefined throws a TypeError and the handler ends there.
StopTTS ==
  /\ phase = "running"
  /\ IF hasSpeech
     THEN /\ \E k \in StaleAfterCancel(queue) : staleEnds' = k
          /\ queue' = Cancelled(queue)
          /\ isReading' = FALSE
          /\ UNCHANGED uncaught
     ELSE /\ uncaught' = uncaught \cup {"TypeError"}
          /\ UNCHANGED <<isReading, queue, staleEnds>>
  /\ lastCall' = "stop"
  /\ UNCHANGED <<sVars, iVars, rate, text, alerts, hasSpeech, nextId>>

\* The spoken utterance ends: the engine drops it and calls its onend.
NaturalEnd ==
  /\ queue # <<>>
  /\ queue' = Tail(queue)
  /\ isReading' = FALSE
  /\ UNCHANGED <<sVars, iVars, rate, text, alerts, uncaught, hasSpeech, staleEnds, nextId,
                 lastCall>>

\* The end event of a cancelled utterance arrives: its onend runs.
StaleEnd ==
  /\ staleEnds > 0
  /\ staleEnds' = staleEnds - 1
  /\ isReading' = FALSE
  /\ UNCHANGED <<sVars, iVars, rate, text, alerts, uncaught, hasSpeech, queue, nextId,
                 lastCall>>

(***************************************************************************)
(* Sessions and the settings controls.                                     *)
(***************************************************************************)
Mount ==
  /\ phase = "closed"
  /\ LET c == MountCommit(store)
     IN /\ settings' = c.settings
        /\ store' = c.store
        /\ uncaught' = Escaped(c.escaped)
  /\ mountedFrom' = store
  /\ phase' = "running"
  /\ rate' = DefaultRate
  /\ text' = Placeholder
  /\ UNCHANGED <<alerts, iVars, tVars>>

\* A control's onChange: the setter, and the commit's save effect when a
\* dependency changed.
Change(f, v) ==
  /\ phase = "running"
  /\ settings' = [settings EXCEPT ![f] = v]
  /\ store' = IF settings' # settings THEN SaveEffect(settings') ELSE store
  /\ mountedFrom' = Untracked
  /\ UNCHANGED <<phase, rate, text, uncaught, alerts, iVars, tVars>>

SetFont == \E v \in FontChoices : Change("font", Str(v))
SetFontSize == \E v \in FontSizeChoices : Change("fontSize", Num(v))
SetLineHeight == \E v \in LineHeightChoices : Change("lineHeight", Num(v))
SetLetterSpacing == \E v \in LetterSpacingChoices : Change("letterSpacing", Num(v))
SetBgColor == \E v \in BgColorChoices : Change("bgColor", Str(v))
SetTextColor == \E v \in TextColorChoices : Change("textColor", Str(v))

SetRate ==
  /\ phase = "running"
  /\ \E v \in RateChoices : rate' = v
  /\ UNCHANGED <<settings, store, mountedFrom, phase, text, uncaught, alerts, iVars, tVars>>

\* The page is left: the component's state is gone, the entry stays.  The
\* model leaves the page at rest, with no import and no utterance in flight.
Close ==
  /\ phase = "running"
  /\ \A j \in 1..Len(jobs) : jobs[j].status # "running"
  /\ queue = <<>> /\ staleEnds = 0
  /\ phase' = "closed"
  /\ settings' = DefaultSettings
  /\ rate' = DefaultRate
  /\ text' = Placeholder
  /\ mountedFrom' = Untracked
  /\ inputValue' = NoFile
  /\ jobs' = <<>>
  /\ writeOrder' = <<>>
  /\ textSource' = "initial"
  /\ isReading' = FALSE
  /\ lastCall' = "none"
  /\ UNCHANGED <<store, uncaught, alerts, hasSpeech, queue, staleEnds, nextId>>

ExternalWrite ==
  /\ phase = "closed"
  /\ \E b \in ExternalStores : store' = b
  /\ UNCHANGED <<phase, settings, rate, mountedFrom, text, uncaught, alerts, iVars, tVars>>

InitSettings ==
  /\ phase = "running"
  /\ settings = MountCommit(NoItem).settings
  /\ store = MountCommit(NoItem).store
  /\ mountedFrom = NoItem
  /\ rate = DefaultRate
  /\ text = Placeholder
  /\ uncaught = {}

InitImport ==
  /\ inputValue = NoFile
  /\ jobs = <<>>
  /\ alerts = {}
  /\ writeOrder = <<>>
  /\ textSource = "initial"

InitTts ==
  /\ hasSpeech \in BOOLEAN
  /\ isReading = FALSE
  /\ queue = <<>>
  /\ staleEnds = 0
  /\ nextId = 1
  /\ lastCall = "none"

Init == InitSettings /\ InitImport /\ InitTts

\* The settings and the imports do not read the speech capability: their
\* specifications fix a host that has it.
InitWithSpeech == Init /\ hasSpeech

SettingsNext ==
  \/ Mount
  \/ Close
  \/ ExternalWrite
  \/ SetFont
  \/ SetFontSize
  \/ SetLineHeight
  \/ SetLetterSpacing
  \/ SetBgColor
  \/ SetTextColor
  \/ SetRate

SettingsSpec == InitWithSpeech /\ [][SettingsNext]_vars

ImportSpec == InitWithSpeech /\ [][ImportNext]_vars

TtsNext ==
  \/ PlayTTS
  \/ StopTTS
  \/ NaturalEnd
  \/ StaleEnd
  \/ EditText
  \/ ClearText
  \/ SetRate

TtsSpec == Init /\ [][TtsNext]_vars

Next == SettingsNext \/ ImportNext \/ TtsNext

Spec == Init /\ [][Next]_vars

(***************************************************************************)
(* The load effect on its own, applied to the state of the first render    *)
(* and to any entry: every entry the load effect can meet after the        *)
(* mount-time save effect, and every other one.                            *)
(***************************************************************************)
Optional(k, vs) == {<<>>} \cup {<<Member(k, v)>> : v \in vs}

LoadInputs ==
  ExternalStores \cup
  { ObjectText(a \o b \o c \o d \o e \o f) :
      a \in Optional("font", {Str("opendys"), Str("")}),
      b \in Optional("fontSize", {Num(99), Num(0), Null}),
      c \in Optional("lineHeight", {Num(24)}),
      d \in Optional("letterSpacing", {Num(0), Num(5)}),
      e \in Optional("bgColor", {Str("#f7fbff")}),
      f \in Optional("textColor", {Str("#222")}) }

LoadInit ==
  /\ InitImport /\ InitTts /\ hasSpeech
  /\ phase = "load pending"
  /\ settings = DefaultSettings
  /\ store \in LoadInputs
  /\ mountedFrom = Untracked
  /\ rate = DefaultRate
  /\ text = Placeholder
  /\ uncaught = {}

RunLoadEffect ==
  /\ phase = "load pending"
  /\ phase' = "loaded"
  /\ LET r == LoadEffect(store, settings)
     IN /\ settings' = r.settings
        /\ uncaught' = Escaped(r.escaped)
  /\ mountedFrom' = store
  /\ UNCHANGED <<store, rate, text, alerts, iVars, tVars>>

LoadSpec == LoadInit /\ [][RunLoadEffect]_vars

(***************************************************************************)
(* The claims.                                                             *)
(***************************************************************************)

\* Every settings record the controls can produce.
UISettings ==
  { [font |-> Str(a), fontSize |-> Num(b), lineHeight |-> Num(c),
     letterSpacing |-> Num(d), bgColor |-> Str(e), textColor |-> Str(f)] :
      a \in FontChoices, b \in FontSizeChoices, c \in LineHeightChoices,
      d \in LetterSpacingChoices, e \in BgColorChoices,
      f \in TextColorChoices \cup {"#222222"} }

\* C1: settings persist across sessions: when a session starts on an entry
\* that holds a settings record S the controls can produce, then after the
\* startup (and before any control is used) the in-memory settings are S and
\* the entry still holds S.
C1_SettingsPersist ==
  \A S \in UISettings :
    (phase = "running" /\ mountedFrom = SaveEffect(S))
      => (settings = S /\ store = SaveEffect(S))

\* C2: an import that ends in an error (an unsupported suffix, or a read or
\* an extraction that fails) has not written the Text Buffer and has shown
\* the error to the user in a notification.
C2_ErrorSurfacedNoWrite ==
  \A j \in 1..Len(jobs) :
    jobs[j].status \in {"failed", "unsupported"}
      => (~jobs[j].wrote /\ jobs[j].alerted)

AllSucceeded == Len(jobs) >= 2 /\ \A j \in 1..Len(jobs) : jobs[j].status = "ok"

\* C3 as claimed: when imports started one after the other have all
\* succeeded, the Text Buffer holds the result of the one started last.
C3_LastStartedWins ==
  (AllSucceeded /\ textSource = "import") => text = jobs[Len(jobs)].result

\* C3 as amended: when imports started one after the other have all
\* succeeded, and the user has not edited the text since, the Text Buffer
\* holds the result of the import that completed last, whichever was started
\* first.
C3_LastCompletedWins ==
  (AllSucceeded /\ textSource = "import")
    => text = jobs[writeOrder[Len(writeOrder)]].result

\* Two imports succeeded, the one started first completed last, and its
\* result, not the later import's, is in the Text Buffer.
C3_Witness ==
  /\ AllSucceeded /\ textSource = "import"
  /\ writeOrder = <<2, 1>>
  /\ text = jobs[1].result
  /\ text # jobs[2].result

\* C4: after each import attempt, once its handler has run to its end or
\* has failed, the file input is empty again.
C4_InputReset ==
  (jobs # <<>> /\ \A j \in 1..Len(jobs) : jobs[j].handler # "awaiting")
    => inputValue = NoFile

InRange(v, lo, hi) == v.t = "num" /\ lo <= v.n /\ v.n <= hi

\* C5: in every state of a running session the numeric settings are numbers
\* within their intervals: fontSize in [14,48], lineHeight in [1.0,2.4],
\* letterSpacing in [0,4], rate in [0.5,2.0]; an entry that carries an
\* out-of-range value such as fontSize 99 does not reach the state.
C5_NumericSettingsInRange ==
  phase = "running" =>
    /\ InRange(settings.fontSize, FontSizeMin, FontSizeMax)
    /\ InRange(settings.lineHeight, LineHeightMin, LineHeightMax)
    /\ InRange(settings.letterSpacing, LetterSpacingMin, LetterSpacingMax)
    /\ rate \in RateMin..RateMax

\* A session that started on the entry {"font":"opendys","fontSize":99} and
\* whose fontSize is the default.
C5_Witness ==
  /\ phase = "running"
  /\ mountedFrom = ObjectText(<<Member("font", Str("opendys")), Member("fontSize", Num(99))>>)
  /\ settings.fontSize = Num(20)

\* C6: in a host without the speech capability, play() and stop() end
\* without an uncaught failure, the controller stays idle and nothing is
\* handed to a speech engine.
C6_NoUseWithoutCapability ==
  ~hasSpeech => (uncaught = {} /\ ~isReading /\ queue = <<>>)

\* C7: with the speech capability, every step leaves at most one utterance
\* in the engine, and a play() leaves exactly one: a new utterance built
\* from the Text Buffer and the rate at the call, whatever was in flight.
C7_OneActiveUtterance ==
  [][hasSpeech =>
       /\ Len(queue') <= 1
       /\ nextId' # nextId => queue' = <<Utterance(nextId, text, rate)>>]_vars

\* A play() that found an utterance in flight has left its own utterance,
\* and only that one, in the engine.
C7_Witness ==
  /\ hasSpeech /\ lastCall = "replay" /\ isReading
  /\ Len(queue) = 1 /\ queue[1].id = nextId - 1 /\ queue[1].id > 1

\* C8: the load effect on a missing, empty, unparsable or non-object entry
\* ends without an error escaping it and leaves every field at its default.
C8_LoadFallsBackToDefaults ==
  (phase = "loaded" /\ store.kind \in {"absent", "empty", "garbage", "null", "scalar"})
    => (settings = DefaultSettings /\ uncaught = {})

\* The load effect has run on the JSON text null.
C8_Witness == phase = "loaded" /\ store = NullText /\ settings = DefaultSettings

HasSuffix(name, suffixes) == \E x \in suffixes : EndsWith(ToLowerCase(name), x)

\* C9: the extractor of an import is a function of the lower-cased file
\* name: .txt the plain-text read, .pdf readPDF, .docx readDOCX, an image
\* suffix readImage, exactly one of them; any other name is rejected as
\* unsupported, with no extractor.
C9_Classification ==
  \A j \in 1..Len(jobs) :
    LET n == jobs[j].file.name
        x == jobs[j].extractor
    IN /\ HasSuffix(n, {DotTxt}) => x = "file.text"
       /\ HasSuffix(n, {DotPdf}) => x = "readPDF"
       /\ HasSuffix(n, {DotDocx}) => x = "readDOCX"
       /\ HasSuffix(n, ImageSuffixes) => x = "readImage"
       /\ ~HasSuffix(n, {DotTxt, DotPdf, DotDocx} \cup ImageSuffixes)
            => (x = "none" /\ jobs[j].status = "unsupported")
       /\ x = "none" <=> jobs[j].status = "unsupported"

\* An upper-case .TXT went to the plain-text read and another name was
\* rejected as unsupported.
C9_Witness ==
  /\ \E j \in 1..Len(jobs) : /\ jobs[j].file.name = <<"B", ".", "T", "X", "T">>
                             /\ jobs[j].extractor = "file.text"
  /\ \E j \in 1..Len(jobs) : jobs[j].status = "unsupported"

\* C10: with the speech capability, the controller is speaking exactly when
\* an utterance started by play() is in the engine.
C10_ControllerTracksEngine ==
  hasSpeech => (isReading <=> queue # <<>>)

====
